---------------------------- MODULE Spec2Model ----------------------------
(***************************************************************************)
(* Model of the YouTube link resolver and comment-dump parser of          *)
(* Automated_Selenium_Processing.py and sentiment_dashboard_prototype.py, *)
(* and of deepseek_sentiment of survey_pipeline.py.                       *)
(*                                                                         *)
(* A Python str is a sequence of one-character strings, so that strip,     *)
(* split, startswith, urlparse and re.fullmatch are computed character by  *)
(* character, as the code computes them.  A value that may be None or an   *)
(* exception is a record [kind, val].                                      *)
(***************************************************************************)
EXTENDS Integers, Sequences, FiniteSets, TLC

VARIABLES
    variant,     \* which script runs: "selenium" or "prototype"
    url,         \* normalize_url: the argument
    norm,        \* normalize_url: the returned value (or the exception)
    shape,       \* normalize_url: how the argument was put together
    npc          \* normalize_url: "call" before the call, "returned" after

normVars == <<url, shape, norm, npc>>

VARIABLES
    urls,        \* main(urls) / process_videos(urls): the argument
    pc,          \* where the run stands: "dedupe", "probe", "scrape", "done",
                 \* "raised" (an exception left the function)
    ui,          \* the loop over urls: position of the next link, from 1
    ci,          \* the loop over cleaned: position of the next link
    ri,          \* the loop over reachable: position of the next link
    seen,        \* set of canonical links met so far
    cleaned,     \* cleaned (canon in the prototype)
    malformed,
    duplicates,
    reachable,
    broken,      \* Automated_Selenium_Processing.py: the list broken
    unreachable, \* sentiment_dashboard_prototype.py: the set unreachable
    probes,      \* the HTTP GETs made so far: <<link, what came back>>
    driver,      \* the Chrome driver: "none", "open", "quit"
    outdir,      \* whether OUTPUT_DIR has been made
    scraped,     \* the links get_comments has returned a dump for
    written,     \* the output files written so far
    printed      \* the lines printed so far, by what they report

resVars == <<urls, pc, ui, ci, ri, seen, cleaned, malformed, duplicates, reachable,
             broken, unreachable, probes, driver, outdir, scraped, written,
             printed>>

VARIABLES
    dump,        \* get_comments: the text the extension handed over (raw_dump)
    desc,        \* how the dump was put together, block by block
    blocks,      \* the blocks the dump was cut into
    bi,          \* the loop over blocks: position of the next block, from 1
    res,         \* what the last call of parse_comment_block came back with
    tops,        \* prototype: the parent records so far
    children,    \* prototype: the reply records so far
    parsed,      \* the records of the dump (the list parsed)
    ppc          \* where the parse stands: "split", "loop", "done", "raised"

parVars == <<dump, desc, blocks, bi, res, tops, children, parsed, ppc>>

VARIABLES
    txt,         \* deepseek_sentiment: the argument text
    attempt,     \* the passes of the retry loop that have ended in except
    posts,       \* the calls of requests.post made so far
    log,         \* what each request met, in order
    sresult,     \* what the call came back with
    spc          \* where the call stands: "call", "loop", "returned", "raised"

sentVars == <<txt, attempt, posts, log, sresult, spc>>

-----------------------------------------------------------------------------
(* Python str primitives                                                   *)

Min(S) == CHOOSE x \in S : \A y \in S : x <= y

Max(S) == CHOOSE x \in S : \A y \in S : x >= y

Take(s, n) == SubSeq(s, 1, n)

Drop(s, n) == SubSeq(s, n + 1, Len(s))

\* s.find(c, from): 1-based index of the first character of s at or after
\* `from` that lies in C, 0 when there is none (Python's -1).
FindFrom(s, C, from) ==
    LET hits == {k \in from..Len(s) : s[k] \in C}
    IN  IF hits = {} THEN 0 ELSE Min(hits)

Find(s, c) == FindFrom(s, {c}, 1)

\* s.rfind(c)
RFind(s, c) ==
    LET hits == {k \in 1..Len(s) : s[k] = c}
    IN  IF hits = {} THEN 0 ELSE Max(hits)

\* c in s, for a single character c
HasChar(s, c) == \E k \in 1..Len(s) : s[k] = c

\* s.startswith(p)
StartsWith(s, p) == Len(s) >= Len(p) /\ Take(s, Len(p)) = p

\* p in s, for a substring p
Contains(s, p) ==
    \E k \in 1..(Len(s) - Len(p) + 1) : SubSeq(s, k, k + Len(p) - 1) = p

\* str.strip() with no argument removes these (the ASCII ones of them)
Whitespace == {" ", "\t", "\n", "\r", "\f"}

\* s.lstrip(chars)
LStripChars(s, C) ==
    LET keep == {k \in 1..Len(s) : s[k] \notin C}
    IN  IF keep = {} THEN <<>> ELSE SubSeq(s, Min(keep), Len(s))

\* s.rstrip(chars)
RStripChars(s, C) ==
    LET keep == {k \in 1..Len(s) : s[k] \notin C}
    IN  IF keep = {} THEN <<>> ELSE SubSeq(s, 1, Max(keep))

\* s.strip()
Strip(s) == RStripChars(LStripChars(s, Whitespace), Whitespace)

\* s.rstrip()
RStrip(s) == RStripChars(s, Whitespace)

\* s.split(c): the pieces between the occurrences of the character c; never
\* empty (the split of "" is [""]).
Split(s, c) ==
    LET P      == {k \in 1..Len(s) : s[k] = c}
        n      == Cardinality(P)
        sep(j) == IF j = 0 THEN 0
                  ELSE IF j = n + 1 THEN Len(s) + 1
                  ELSE CHOOSE q \in P : Cardinality({r \in P : r < q}) = j - 1
    IN  [j \in 1..(n + 1) |-> SubSeq(s, sep(j - 1) + 1, sep(j) - 1)]

\* s.split(c, 1)
SplitOnce(s, c) ==
    LET k == Find(s, c)
    IN  IF k = 0 THEN <<s>> ELSE <<Take(s, k - 1), Drop(s, k)>>

\* s.replace(c, d) for single characters
ReplaceChar(s, c, d) == [k \in 1..Len(s) |-> IF s[k] = c THEN d ELSE s[k]]

UpperAlpha ==
    <<"A","B","C","D","E","F","G","H","I","J","K","L","M",
      "N","O","P","Q","R","S","T","U","V","W","X","Y","Z">>

LowerAlpha ==
    <<"a","b","c","d","e","f","g","h","i","j","k","l","m",
      "n","o","p","q","r","s","t","u","v","w","x","y","z">>

Digits == {"0","1","2","3","4","5","6","7","8","9"}

Range(f) == {f[k] : k \in DOMAIN f}

AsciiAlpha == Range(UpperAlpha) \cup Range(LowerAlpha)

\* s.lower()
Lower(s) ==
    [k \in 1..Len(s) |->
        IF s[k] \in Range(UpperAlpha)
        THEN LowerAlpha[CHOOSE j \in 1..26 : UpperAlpha[j] = s[k]]
        ELSE s[k]]

\* The optional values of the model: None, a str, or a raised exception.
None == [kind |-> "None", val |-> <<>>]

Str(s) == [kind |-> "str", val |-> s]

Raised(e) == [kind |-> e, val |-> <<>>]


-----------------------------------------------------------------------------
(* The string literals of the two scripts                                  *)

\* "http"
HTTP_ == <<"h","t","t","p">>

\* "https"
HTTPS_ == <<"h","t","t","p","s">>

\* "://"
COLON_SS == <<":","/","/">>

\* "www.youtube.com"
WWW_YOUTUBE_COM == <<"w","w","w",".","y","o","u","t","u","b","e",".","c","o","m">>

\* "youtube.com"
YOUTUBE_COM == <<"y","o","u","t","u","b","e",".","c","o","m">>

\* "youtu.be"
YOUTU_BE == <<"y","o","u","t","u",".","b","e">>

\* "/watch"
SLASH_WATCH == <<"/","w","a","t","c","h">>

\* "watch"
WATCH == <<"w","a","t","c","h">>

\* "shorts/"
SHORTS_SLASH == <<"s","h","o","r","t","s","/">>

\* "?v="
Q_V_EQ == <<"?","v","=">>

-----------------------------------------------------------------------------
(* urllib.parse, as normalize_url uses it                                  *)

\* scheme_chars of urllib.parse
SchemeChars == AsciiAlpha \cup Digits \cup {"+", "-", "."}

\* uses_params of urllib.parse, the members a lower-cased scheme of the
\* model can equal
UsesParams == {<<>>, HTTP_, HTTPS_, <<"f","t","p">>}

\* _splitparams(url)
splitparams(u) ==
    LET slash == RFind(u, "/")
        k == IF slash > 0 THEN FindFrom(u, {";"}, slash) ELSE Find(u, ";")
    IN  IF k = 0 THEN <<u, <<>>>> ELSE <<Take(u, k - 1), Drop(u, k)>>

\* urlparse(url) is urlsplit followed by the split of the path's parameters.
\* It is written here as a chain, each step handing what it has split off
\* to the next; the record at the end of the chain is the ParseResult.

\* The last step: the parameters of the path (for a scheme in uses_params),
\* and the result.  raised is TRUE where urlsplit raises
\* ValueError("Invalid IPv6 URL"): a netloc with one square bracket and not
\* the other.  (A netloc with both brackets is validated as an IP literal;
\* no input of the model has both.)
ParseResult(scheme, netloc, u5, query, frag) ==
    LET pp == IF scheme \in UsesParams /\ HasChar(u5, ";")
              THEN splitparams(u5) ELSE <<u5, <<>>>>
    IN  [raised   |-> HasChar(netloc, "[") # HasChar(netloc, "]"),
         scheme   |-> scheme,
         netloc   |-> netloc,
         path     |-> pp[1],
         params   |-> pp[2],
         query    |-> query,
         fragment |-> frag]

\* if '?' in url: url, query = url.split('?', 1)
SplitQuery(scheme, netloc, u4, frag) ==
    LET qm == Find(u4, "?")
    IN  IF qm = 0 THEN ParseResult(scheme, netloc, u4, <<>>, frag)
        ELSE ParseResult(scheme, netloc, Take(u4, qm - 1), Drop(u4, qm), frag)

\* if '#' in url: url, fragment = url.split('#', 1)
SplitFragment(scheme, netloc, u3) ==
    LET hash == Find(u3, "#")
    IN  IF hash = 0 THEN SplitQuery(scheme, netloc, u3, <<>>)
        ELSE SplitQuery(scheme, netloc, Take(u3, hash - 1), Drop(u3, hash))

\* if url[:2] == '//': netloc, url = _splitnetloc(url, 2)
SplitNetloc(scheme, u2) ==
    LET delim == FindFrom(u2, {"/", "?", "#"}, 3)
    IN  IF Take(u2, 2) # <<"/", "/">> THEN SplitFragment(scheme, <<>>, u2)
        ELSE IF delim = 0 THEN SplitFragment(scheme, Drop(u2, 2), <<>>)
        ELSE SplitFragment(scheme, SubSeq(u2, 3, delim - 1), Drop(u2, delim - 1))

\* The scheme: what stands before the first ":" when that is a letter
\* followed by scheme characters only
SplitScheme(u1) ==
    LET colon == Find(u1, ":")
    IN  IF /\ colon > 1
           /\ u1[1] \in AsciiAlpha
           /\ \A k \in 1..(colon - 1) : u1[k] \in SchemeChars
        THEN SplitNetloc(Lower(Take(u1, colon - 1)), Drop(u1, colon))
        ELSE SplitNetloc(<<>>, u1)

\* urlparse(url): leading blanks stripped and tab, CR and LF removed first
urlparse(u0) ==
    SplitScheme(SelectSeq(LStripChars(u0, Whitespace),
                          LAMBDA c : c \notin {"\t", "\r", "\n"}))

\* One field of a query, name=value: whether parse_qsl keeps it (it holds
\* an "=" and its value is not empty)
FieldKept(a) == Len(SplitOnce(a, "=")) = 2 /\ Len(SplitOnce(a, "=")[2]) > 0

\* The (name, value) pair of a kept field, "+" decoded to a space.  (The
\* %XX escapes are decoded too; no input of the model holds a "%".)
FieldPair(a) ==
    <<ReplaceChar(SplitOnce(a, "=")[1], "+", " "),
      ReplaceChar(SplitOnce(a, "=")[2], "+", " ")>>

\* The pairs of a sequence of fields
PairsOf(kept) == [k \in 1..Len(kept) |-> FieldPair(kept[k])]

\* parse_qsl(qs) with the defaults
parse_qsl(qs) ==
    IF qs = <<>> THEN <<>>
    ELSE PairsOf(SelectSeq(Split(qs, "&"), FieldKept))

\* QueryV with the key forgotten: the value of the first field, whatever
\* its name
QueryV_FirstField(qs) ==
    LET pairs == parse_qsl(qs)
    IN  IF Len(pairs) = 0 THEN <<>> ELSE pairs[1][2]

\* parse_qs(query).get("v", [""])[0]: the first value of the field v
QueryV(qs) ==
    LET pairs == parse_qsl(qs)
        hits  == {k \in 1..Len(pairs) : pairs[k][1] = <<"v">>}
    IN  IF hits = {} THEN <<>> ELSE pairs[Min(hits)][2]

-----------------------------------------------------------------------------
(* normalize_url                                                           *)

\* The length {11} of a video id in the pattern of re.fullmatch
IdLen == 11

\* The character class [A-Za-z0-9_-]
IdChars == AsciiAlpha \cup Digits \cup {"_", "-"}

\* FullMatchId with re.match for re.fullmatch: the pattern at the start
FullMatchId_Prefix(vid) ==
    Len(vid) >= IdLen /\ \A k \in 1..IdLen : vid[k] \in IdChars

\* re.fullmatch(r"[A-Za-z0-9_-]{11}", vid)
FullMatchId(vid) == Len(vid) = IdLen /\ \A k \in 1..Len(vid) : vid[k] \in IdChars

\* f"https://www.youtube.com/watch?v={vid}"
WatchUrl(vid) == HTTPS_ \o COLON_SS \o WWW_YOUTUBE_COM \o SLASH_WATCH \o Q_V_EQ \o vid

\* The test on the extracted id and the return that ends both copies
IdToResult(vid) == IF FullMatchId(vid) THEN Str(WatchUrl(vid)) ELSE None

\* normalize_url of Automated_Selenium_Processing.py, lines 42-55: the
\* branches on host and path, the id each extracts, and the test of it
ASP_branches(host, path, query) ==
    IF host = YOUTU_BE THEN IdToResult(Split(path, "?")[1])
    ELSE IF Contains(host, YOUTUBE_COM)
         THEN IF StartsWith(path, WATCH) THEN IdToResult(QueryV(query))
              ELSE IF StartsWith(path, SHORTS_SLASH)
                   THEN IdToResult(Split(path, "/")[2])
              ELSE None
    ELSE None

\* lines 38-40: parsed = urlparse(url), host and path; the ValueError of
\* urlparse is not caught
ASP_parsed(p) ==
    IF p.raised THEN Raised("ValueError")
    ELSE ASP_branches(Lower(p.netloc), LStripChars(p.path, {"/"}), p.query)

\* lines 36-37: the empty string
ASP_stripped(u) == IF u = <<>> THEN None ELSE ASP_parsed(urlparse(u))

\* normalize_url of Automated_Selenium_Processing.py
ASP_normalize_url(raw) == ASP_stripped(Strip(raw))

\* A prototype copy that skips the test for youtube.com in the host
SDP_branches_AnyHost(host, path, query) ==
    IF host = YOUTU_BE THEN IdToResult(Split(path, "?")[1])
    ELSE IF StartsWith(path, WATCH) THEN IdToResult(QueryV(query))
    ELSE IF StartsWith(path, SHORTS_SLASH)
         THEN IdToResult(Split(path, "/")[2])
    ELSE None

\* normalize_url of sentiment_dashboard_prototype.py, lines 41-52: no else
\* branch for a host that is neither; vid stays "" and fails the pattern
SDP_branches(host, path, query) ==
    IF host = YOUTU_BE THEN IdToResult(Split(path, "?")[1])
    ELSE IF Contains(host, YOUTUBE_COM)
         THEN IF StartsWith(path, WATCH) THEN IdToResult(QueryV(query))
              ELSE IF StartsWith(path, SHORTS_SLASH)
                   THEN IdToResult(Split(path, "/")[2])
              ELSE None
    ELSE IdToResult(<<>>)

\* lines 37-39
SDP_parsed(p) ==
    IF p.raised THEN Raised("ValueError")
    ELSE SDP_branches(Lower(p.netloc), LStripChars(p.path, {"/"}), p.query)

\* lines 35-36
SDP_stripped(u) == IF u = <<>> THEN None ELSE SDP_parsed(urlparse(u))

\* normalize_url of sentiment_dashboard_prototype.py
SDP_normalize_url(raw) == SDP_stripped(Strip(raw))

\* The copy of normalize_url the running script holds
normalize_url(v, raw) ==
    IF v = "selenium" THEN ASP_normalize_url(raw) ELSE SDP_normalize_url(raw)

-----------------------------------------------------------------------------
(* The links handed to normalize_url: every string put together from a     *)
(* scheme, a host, a path, a query and an id, with or without blanks       *)
(* around it, and the blank strings.                                       *)

Variants == {"selenium", "prototype"}

\* "cpcfdwnf4M8", the id of the links in the scripts' own lists
BaseId == <<"c","p","c","f","d","w","n","f","4","M","8">>

\* Ids that match [A-Za-z0-9_-]{11}: the base id, and the base id with its
\* first or last character replaced by one of each kind the class allows
ValidIds ==
    {BaseId} \cup
    {[BaseId EXCEPT ![p] = c] : p \in {1, IdLen}, c \in {"A", "0", "_", "-"}}

\* Ids that do not: 10 and 12 characters, none, and a character outside
\* the class at either end
InvalidIds ==
    {Take(BaseId, IdLen - 1), BaseId \o <<"a">>, <<>>} \cup
    {[BaseId EXCEPT ![p] = c] : p \in {1, IdLen}, c \in {".", "+"}}

SchemeTags == {"https", "none"}

HostTags == {"youtu.be", "www.youtube.com", "m.YouTube.com", "example.com", "[x"}

PathTags == {"id", "shorts", "shorts/", "watch", "embed", "none"}

QueryTags == {"none", "v", "v&si", "si&v", "si"}

SchemeText(t) == IF t = "https" THEN HTTPS_ \o COLON_SS ELSE <<>>

HostText(t) ==
    CASE t = "youtu.be"        -> YOUTU_BE
      [] t = "www.youtube.com" -> WWW_YOUTUBE_COM
      [] t = "m.YouTube.com"   -> <<"m",".","Y","o","u","T","u","b","e",".","c","o","m">>
      [] t = "example.com"     -> <<"e","x","a","m","p","l","e",".","c","o","m">>
      [] t = "[x"              -> <<"[","x">>

PathText(t, id) ==
    CASE t = "id"      -> <<"/">> \o id
      [] t = "shorts"  -> <<"/">> \o SHORTS_SLASH \o id
      [] t = "shorts/" -> <<"/">> \o SHORTS_SLASH \o id \o <<"/">>
      [] t = "watch"   -> SLASH_WATCH
      [] t = "embed"   -> <<"/","e","m","b","e","d","/">> \o id
      [] t = "none"    -> <<>>

\* "si=XYZ", the share token of the scripts' own youtu.be link
SI_XYZ == <<"s","i","=","X","Y","Z">>

QueryText(t, id) ==
    CASE t = "none" -> <<>>
      [] t = "v"    -> Q_V_EQ \o id
      [] t = "v&si" -> Q_V_EQ \o id \o <<"&">> \o SI_XYZ
      [] t = "si&v" -> <<"?">> \o SI_XYZ \o <<"&","v","=">> \o id
      [] t = "si"   -> <<"?">> \o SI_XYZ

Shapes ==
    [form : {"url"}, scheme : SchemeTags, host : HostTags, path : PathTags,
     query : QueryTags, id : ValidIds \cup InvalidIds, pad : BOOLEAN]
    \cup
    [form : {"blank"}, scheme : {"none"}, host : {"[x"}, path : {"none"},
     query : {"none"}, id : {<<>>}, pad : BOOLEAN]

\* The string of a shape
Build(sh) ==
    LET body == SchemeText(sh.scheme) \o HostText(sh.host)
                    \o PathText(sh.path, sh.id) \o QueryText(sh.query, sh.id)
    IN  IF sh.form = "blank" THEN (IF sh.pad THEN <<" ", " ">> ELSE <<>>)
        ELSE IF sh.pad THEN <<" ">> \o body \o <<" ", "\n">>
        ELSE body

-----------------------------------------------------------------------------
(* is_url_reachable                                                        *)

\* What requests.get(url, timeout=...) can come back with: a response with
\* a status code, or a requests.RequestException (Timeout, ConnectionError
\* for a DNS failure or a refused connection, ...).
ProbeOutcomes ==
    [kind : {"response"}, status : {200, 301, 404}]
    \cup {[kind |-> "RequestException", status |-> 0]}

\* is_url_reachable with any response taken for a live link
is_url_reachable_AnyResponse(o) ==
    IF o.kind = "response" THEN "True" ELSE "False"

\* is_url_reachable without its try/except
is_url_reachable_NoExcept(o) ==
    IF o.kind = "response"
    THEN (IF o.status = 200 THEN "True" ELSE "False")
    ELSE "raise"

\* is_url_reachable(url), given what requests.get came back with: "True",
\* "False", or "raise" were an exception to leave it.
is_url_reachable(o) ==
    IF o.kind = "response"
    THEN (IF o.status = 200 THEN "True" ELSE "False")
    ELSE "False"

-----------------------------------------------------------------------------
(* More of Python's str and int, for the parse of the dump                 *)

\* s.find(p, from) for a substring p: 1-based, 0 when there is none
FindSub(s, p, from) ==
    LET hits == {k \in from..(Len(s) - Len(p) + 1) :
                    SubSeq(s, k, k + Len(p) - 1) = p}
    IN  IF hits = {} THEN 0 ELSE Min(hits)

RECURSIVE SplitSub(_, _)

\* s.split(p), with k the place of the first p in s (0: none)
SplitAt(s, p, k) ==
    IF k = 0 THEN <<s>>
    ELSE <<Take(s, k - 1)>> \o SplitSub(Drop(s, k + Len(p) - 1), p)

\* s.split(p) for a substring p
SplitSub(s, p) == SplitAt(s, p, FindSub(s, p, 1))

RECURSIVE Join(_, _)

\* sep.join(parts)
Join(parts, sep) ==
    IF parts = <<>> THEN <<>>
    ELSE IF Len(parts) = 1 THEN parts[1]
    ELSE parts[1] \o sep \o Join(Tail(parts), sep)

\* s.replace(p, r) for a substring p
ReplaceSub(s, p, r) == Join(SplitSub(s, p), r)

\* The line boundaries of str.splitlines() (the ASCII ones that occur)
LineBreaks == {"\n", "\r", "\f"}

\* The pieces of s between the characters of C
SplitChars(s, C) ==
    LET P      == {k \in 1..Len(s) : s[k] \in C}
        n      == Cardinality(P)
        sep(j) == IF j = 0 THEN 0
                  ELSE IF j = n + 1 THEN Len(s) + 1
                  ELSE CHOOSE q \in P : Cardinality({r \in P : r < q}) = j - 1
    IN  [j \in 1..(n + 1) |-> SubSeq(s, sep(j - 1) + 1, sep(j) - 1)]

\* s.splitlines(), up to empty lines (its callers drop the blank lines)
splitlines(s) == SplitChars(s, LineBreaks)

\* "if ln.strip()"
NonBlank(ln) == Strip(ln) # <<>>

StripEach(ls) == [k \in 1..Len(ls) |-> Strip(ls[k])]

RStripEach(ls) == [k \in 1..Len(ls) |-> RStrip(ls[k])]

DigitSeq == <<"0","1","2","3","4","5","6","7","8","9">>

DigitVal(c) == (CHOOSE j \in 1..Len(DigitSeq) : DigitSeq[j] = c) - 1

RECURSIVE DigitsVal(_)

\* The number a string of digits (and underscores) writes
DigitsVal(t) ==
    IF t = <<>> THEN 0
    ELSE IF t[Len(t)] = "_" THEN DigitsVal(Take(t, Len(t) - 1))
    ELSE 10 * DigitsVal(Take(t, Len(t) - 1)) + DigitVal(t[Len(t)])

\* Whether int() takes t, the text after the sign: digits, with single
\* underscores between them
IntDigits(t) ==
    /\ t # <<>>
    /\ \A k \in 1..Len(t) : t[k] \in Digits \cup {"_"}
    /\ t[1] # "_" /\ t[Len(t)] # "_"
    /\ \A k \in 1..(Len(t) - 1) : ~(t[k] = "_" /\ t[k + 1] = "_")

\* int(t) for t stripped
IntStripped(t) ==
    IF t # <<>> /\ t[1] \in {"+", "-"}
    THEN (IF IntDigits(Tail(t))
          THEN [kind |-> "int",
                val |-> IF t[1] = "-" THEN 0 - DigitsVal(Tail(t))
                        ELSE DigitsVal(Tail(t))]
          ELSE [kind |-> "ValueError", val |-> 0])
    ELSE (IF IntDigits(t)
          THEN [kind |-> "int", val |-> DigitsVal(t)]
          ELSE [kind |-> "ValueError", val |-> 0])

\* int(s): blanks around the number are allowed; anything else that is not
\* a decimal integer raises ValueError
int(s) == IntStripped(Strip(s))

-----------------------------------------------------------------------------
(* The markers of the dump                                                 *)

\* "#####"
DELIM == <<"#","#","#","#","#">>

\* "[COMMENT]"
MARK_COMMENT == <<"[","C","O","M","M","E","N","T","]">>

\* "[REPLY]"
MARK_REPLY == <<"[","R","E","P","L","Y","]">>

\* "Replies:"
REPLIES_ == <<"R","e","p","l","i","e","s",":">>

\* "(edited)"
EDITED_ == <<"(","e","d","i","t","e","d",")">>

\* "like:"
LIKE_ == <<"l","i","k","e",":">>

\* "reply:"
REPLY_ == <<"r","e","p","l","y",":">>

-----------------------------------------------------------------------------
(* The comment records                                                     *)

\* The dict both parsers start from.  A key the code has not set is None
\* here: parent_id of a parent, and of every record of the Selenium script.
NewRecord(username, profile_url, comment_url) ==
    [username |-> username, profile_url |-> profile_url,
     comment_url |-> comment_url, posted |-> <<>>, edited |-> FALSE,
     likes |-> 0, replies |-> 0, comment |-> <<>>, parent_id |-> None]

NoRecord == NewRecord(<<>>, <<>>, <<>>)

\* A head parsed: the dict and the index of the next unread line
HeadOk(d, next) == [kind |-> "ok", d |-> d, next |-> next]

\* An exception on the way
HeadRaised(e) == [kind |-> e, d |-> NoRecord, next |-> 0]

\* part.split(":", 1)[1]
AfterColon(part) == SplitOnce(part, ":")[2]

\* d[key] = int(...), or the ValueError of int
SetLikes(d, n) ==
    IF n.kind = "int" THEN HeadOk([d EXCEPT !.likes = n.val], 0)
    ELSE HeadRaised(n.kind)

SetReplies(d, n) ==
    IF n.kind = "int" THEN HeadOk([d EXCEPT !.replies = n.val], 0)
    ELSE HeadRaised(n.kind)

-----------------------------------------------------------------------------
(* sentiment_dashboard_prototype.py: _parse_head and parse_comment_block   *)

usernameToggle == FALSE

\* One pass of "for part in ...": like:, reply:, or else the relative date
SDP_part(d, part) ==
    IF StartsWith(part, LIKE_) THEN SetLikes(d, int(AfterColon(part)))
    ELSE IF StartsWith(part, REPLY_) THEN SetReplies(d, int(AfterColon(part)))
    ELSE HeadOk([d EXCEPT !.posted = part], 0)

RECURSIVE SDP_parts(_, _, _)

\* The loop over the parts from the k-th on, h being what the pass before
\* came back with
SDP_next(h, parts, k) ==
    IF h.kind # "ok" THEN h ELSE SDP_parts(h.d, parts, k + 1)

SDP_parts(d, parts, k) ==
    IF k > Len(parts) THEN HeadOk(d, 0)
    ELSE SDP_next(SDP_part(d, parts[k]), parts, k)

\* The metadata line: "(edited)" taken out, then the parts between "|"
SDP_meta(d, meta) ==
    IF Contains(meta, EDITED_)
    THEN SDP_parts([d EXCEPT !.edited = TRUE],
                   StripEach(Split(Strip(ReplaceSub(meta, EDITED_, <<>>)), "|")),
                   1)
    ELSE SDP_parts(d, StripEach(Split(meta, "|")), 1)

\* The head with its index of the next unread line
WithNext(h, next) == IF h.kind = "ok" THEN HeadOk(h.d, next) ELSE h

\* _parse_head(arr, idx), the marker being line `at` of arr counted from 1
\* (idx + 1): the lines at + 1 .. at + 4 are read, whether they are there
\* or not.
parse_head(arr, at) ==
    IF Len(arr) < at + 4 THEN HeadRaised("IndexError")
    ELSE WithNext(SDP_meta(NewRecord(IF usernameToggle THEN arr[at + 1] ELSE <<>>,
                                     arr[at + 2], arr[at + 3]),
                           arr[at + 4]),
                  at + 5)

\* The first line from `from` on that is `stop`, or the line after the last
StopAt(lines, from, stop) ==
    LET hits == {k \in from..Len(lines) : lines[k] = stop}
    IN  IF hits = {} THEN Len(lines) + 1 ELSE Min(hits)

\* What parse_comment_block comes back with
Parsed(parent, replies) ==
    [kind |-> "ok", parent |-> parent, replies |-> replies]

NoBlock == [kind |-> "None", parent |-> NoRecord, replies |-> <<>>]

BlockRaised(e) == [kind |-> e, parent |-> NoRecord, replies |-> <<>>]

\* Stamp with every reply given its own comment_url for parent_id
Stamp_OwnUrl(rep, text, pid) ==
    [rep EXCEPT !.comment = Join(text, <<"\n">>),
                !.parent_id = Str(rep.comment_url)]

\* rep["comment"] = "\n".join(text); rep["parent_id"] = parent["comment_url"]
Stamp(rep, text, pid) ==
    [rep EXCEPT !.comment = Join(text, <<"\n">>), !.parent_id = Str(pid)]

\* replies.append(rep), rest being what the scan of the later lines brings
AppendTo(rep, rest) ==
    IF rest.kind # "ok" THEN rest
    ELSE Parsed(NoRecord, <<rep>> \o rest.replies)

RECURSIVE SDP_replies(_, _, _)

\* A reply whose head is parsed: its text runs to the line j
SDP_reply_text(lines, pid, h, j) ==
    AppendTo(Stamp(h.d, SubSeq(lines, h.next, j - 1), pid),
             SDP_replies(lines, j, pid))

\* A "[REPLY]" line: the head, then the text up to the next "[REPLY]" line
SDP_reply(lines, pid, h) ==
    IF h.kind # "ok" THEN BlockRaised(h.kind)
    ELSE SDP_reply_text(lines, pid, h, StopAt(lines, h.next, MARK_REPLY))

\* The scan of the lines after "Replies:", from line i on
SDP_replies(lines, i, pid) ==
    IF i > Len(lines) THEN Parsed(NoRecord, <<>>)
    ELSE IF lines[i] # MARK_REPLY THEN SDP_replies(lines, i + 1, pid)
    ELSE SDP_reply(lines, pid, parse_head(lines, i))

\* The parent with its replies
WithParent(parent, rs) ==
    IF rs.kind # "ok" THEN rs ELSE Parsed(parent, rs.replies)

\* The body runs to the line e: "Replies:", or the line after the last
SDP_body(lines, h, e) ==
    WithParent([h.d EXCEPT !.comment = Join(SubSeq(lines, h.next, e - 1), <<"\n">>)],
               IF e <= Len(lines)
               THEN SDP_replies(lines, e + 1, h.d.comment_url)
               ELSE Parsed(NoRecord, <<>>))

\* After the head of the parent
SDP_parent(lines, h) ==
    IF h.kind # "ok" THEN BlockRaised(h.kind)
    ELSE SDP_body(lines, h, StopAt(lines, h.next, REPLIES_))

\* parse_comment_block on the lines of the block
SDP_lines(lines) ==
    IF lines = <<>> THEN NoBlock
    ELSE IF ~Contains(lines[1], MARK_COMMENT) THEN NoBlock
    ELSE SDP_parent(lines, parse_head(lines, 1))

\* parse_comment_block(block) of the prototype
SDP_parse_comment_block(block) ==
    SDP_lines(RStripEach(SelectSeq(splitlines(block), NonBlank)))

-----------------------------------------------------------------------------
(* Automated_Selenium_Processing.py: parse_comment_block                   *)

\* One pass of "for p in parts[1:]"
ASP_part(d, part) ==
    IF StartsWith(part, LIKE_) THEN SetLikes(d, int(AfterColon(part)))
    ELSE IF StartsWith(part, REPLY_) THEN SetReplies(d, int(AfterColon(part)))
    ELSE HeadOk(d, 0)

RECURSIVE ASP_parts(_, _, _)

ASP_next(h, parts, k) ==
    IF h.kind # "ok" THEN h ELSE ASP_parts(h.d, parts, k + 1)

ASP_parts(d, parts, k) ==
    IF k > Len(parts) THEN HeadOk(d, 0)
    ELSE ASP_next(ASP_part(d, parts[k]), parts, k)

\* d["posted"] = parts[0], then the loop over parts[1:]
ASP_posted(d, parts) == ASP_parts([d EXCEPT !.posted = parts[1]], parts, 2)

\* The metadata line
ASP_meta(d, meta) ==
    IF Contains(meta, EDITED_)
    THEN ASP_posted([d EXCEPT !.edited = TRUE],
                    StripEach(Split(Strip(ReplaceSub(meta, EDITED_, <<>>)), "|")))
    ELSE ASP_posted(d, StripEach(Split(meta, "|")))

\* d["comment"] = "\n".join(lines[5:]); return d
ASP_comment(lines, h) ==
    IF h.kind # "ok" THEN BlockRaised(h.kind)
    ELSE Parsed([h.d EXCEPT !.comment = Join(SubSeq(lines, 6, Len(lines)), <<"\n">>)],
                <<>>)

\* ASP_lines without the test for "[COMMENT]" in the first line
ASP_lines_AnyFirstLine(lines) ==
    IF lines = <<>> THEN NoBlock
    ELSE IF Len(lines) < 5 THEN BlockRaised("IndexError")
    ELSE ASP_comment(lines,
                     ASP_meta(NewRecord(lines[2], lines[3], lines[4]), lines[5]))

\* parse_comment_block on the lines of the block: lines[1] .. lines[4] are
\* read, whether they are there or not
ASP_lines(lines) ==
    IF lines = <<>> THEN NoBlock
    ELSE IF ~Contains(lines[1], MARK_COMMENT) THEN NoBlock
    ELSE IF Len(lines) < 5 THEN BlockRaised("IndexError")
    ELSE ASP_comment(lines,
                     ASP_meta(NewRecord(lines[2], lines[3], lines[4]), lines[5]))

\* parse_comment_block(block) of the Selenium script
ASP_parse_comment_block(block) ==
    ASP_lines(StripEach(SelectSeq(splitlines(block), NonBlank)))

parse_comment_block(v, block) ==
    IF v = "selenium" THEN ASP_parse_comment_block(block)
    ELSE SDP_parse_comment_block(block)

-----------------------------------------------------------------------------
(* The cut of the dump into blocks                                         *)

\* [b.strip() for b in raw_dump.split("#####") if b.strip()]
SDP_blocks(raw) == StripEach(SelectSeq(SplitSub(raw, DELIM), NonBlank))

RECURSIVE ASP_findall(_, _)

\* A match from the delimiter at i (0: none) to the next one at j (0: none)
ASP_match(raw, i, j) ==
    IF i = 0 \/ j = 0 THEN <<>>
    ELSE <<SubSeq(raw, i + Len(DELIM), j - 1)>>
             \o ASP_findall(raw, j + Len(DELIM))

\* The closing delimiter of a match that opens at i
ASP_close(raw, i) ==
    ASP_match(raw, i, IF i = 0 THEN 0 ELSE FindSub(raw, DELIM, i + Len(DELIM)))

\* re.findall(r'#####(.*?)#####', raw, re.DOTALL), from the place `from` on:
\* the text between one delimiter and the next, the search going on after
\* the closing delimiter
ASP_findall(raw, from) == ASP_close(raw, FindSub(raw, DELIM, from))

ASP_blocks(raw) == ASP_findall(raw, 1)

BlocksOf(v, raw) == IF v = "selenium" THEN ASP_blocks(raw) ELSE SDP_blocks(raw)

-----------------------------------------------------------------------------
(* The dumps the parse is run on                                           *)

\* Most blocks in one dump
MaxBlocks == 2

\* The metadata lines of the dumps:
\*   "3 days ago|like:12|reply:4"       "1 day ago (edited)|like:0"
\*   "2 hours ago"                      "5 min ago | like: 7 | reply: 1"
\*   "1 day ago|like:1K"                "1 day ago|pinned|like:2"
MetaText(t) ==
    CASE t = "full" ->
           <<"3"," ","d","a","y","s"," ","a","g","o","|","l","i","k","e",":","1","2","|","r","e","p","l","y",":","4">>
      [] t = "edited" ->
           <<"1"," ","d","a","y"," ","a","g","o"," ","(","e","d","i","t","e","d",")","|","l","i","k","e",":","0">>
      [] t = "bare" ->
           <<"2"," ","h","o","u","r","s"," ","a","g","o">>
      [] t = "spaced" ->
           <<"5"," ","m","i","n"," ","a","g","o"," ","|"," ","l","i","k","e",":"," ","7"," ","|"," ","r","e","p","l","y",":"," ","1">>
      [] t = "badint" ->
           <<"1"," ","d","a","y"," ","a","g","o","|","l","i","k","e",":","1","K">>
      [] t = "extra" ->
           <<"1"," ","d","a","y"," ","a","g","o","|","p","i","n","n","e","d","|","l","i","k","e",":","2">>

\* The body lines of a comment: "one", then " two " with blanks around it
BodyText(n) == SubSeq(<<<<"o","n","e">>, <<" ","t","w","o"," ">>>>, 1, n)

\* The comment_url of the b-th block's parent, "c<b>", and of its r-th
\* reply, "c<b>.<r>"
ParentUrl(b) == <<"c", DigitSeq[b + 1]>>

ReplyUrl(b, r) == <<"c", DigitSeq[b + 1], ".", DigitSeq[r + 1]>>

\* The four header lines under a marker: user name, profile URL, comment
\* URL, metadata
HeaderLines(who, link, meta) ==
    <<<<"@">> \o who, <<"/","@">> \o who, link, MetaText(meta)>>

\* A reply of the dump: how many of its header lines are there, its
\* metadata line, how many lines its text has
ReplyDesc(hdr, meta, body) == [hdr |-> hdr, meta |-> meta, body |-> body]

\* A block of the dump: a comment with its header, body and, under
\* "Replies:", its replies; or a block that is no comment ("noise"); or a
\* block with a line of other text above the "[COMMENT]" line of a comment
\* ("stray"); or a blank one
BlockDesc(kind, hdr, meta, body, section, replies) ==
    [kind |-> kind, hdr |-> hdr, meta |-> meta, body |-> body,
     section |-> section, replies |-> replies]

\* The lines of the r-th reply of the b-th block, after a blank line
ReplyLines(rd, b, r) ==
    <<<<>>, MARK_REPLY \o <<" ">>>>
      \o SubSeq(HeaderLines(<<"r", DigitSeq[b + 1], DigitSeq[r + 1]>>,
                            ReplyUrl(b, r), rd.meta), 1, rd.hdr)
      \o BodyText(rd.body)

RECURSIVE RepliesLines(_, _, _)

\* The lines of the replies of the b-th block from the r-th on
RepliesLines(rds, b, r) ==
    IF r > Len(rds) THEN <<>>
    ELSE ReplyLines(rds[r], b, r) \o RepliesLines(rds, b, r + 1)

\* The lines of the b-th block
BlockLines(bd, b) ==
    CASE bd.kind = "blank" -> <<<<" ">>, <<>>>>
      [] bd.kind = "noise" -> <<<<"Y","C","S"," ","d","u","m","p">>>>
      [] bd.kind = "stray" ->
           <<<<" ">>, <<"T","o","t","a","l",":"," ","1">>, MARK_COMMENT>>
             \o HeaderLines(<<"u", DigitSeq[b + 1]>>, ParentUrl(b), bd.meta)
             \o BodyText(bd.body)
             \o <<REPLIES_, MARK_REPLY>>
      [] bd.kind = "comment" ->
           <<MARK_COMMENT>>
             \o SubSeq(HeaderLines(<<"u", DigitSeq[b + 1]>>, ParentUrl(b), bd.meta),
                       1, bd.hdr)
             \o BodyText(bd.body)
             \o (IF bd.section
                 THEN <<<<>>, REPLIES_>> \o RepliesLines(bd.replies, b, 1)
                 ELSE <<>>)

\* The text of the b-th block: its lines, each ended by a newline
BlockText(bd, b) == Join(BlockLines(bd, b), <<"\n">>) \o <<"\n">>

RECURSIVE DumpFrom(_, _)

\* The blocks from the b-th on, each under a line "#####"
DumpFrom(ds, b) ==
    IF b > Len(ds) THEN <<>>
    ELSE DELIM \o <<"\n">> \o BlockText(ds[b], b) \o DumpFrom(ds, b + 1)

\* The text of a dump: its blocks, each under a line "#####", and, if
\* `closed`, a last line "#####" under them
DumpText(ds, closed) ==
    DumpFrom(ds, 1) \o (IF closed THEN DELIM \o <<"\n">> ELSE <<>>)

\* The blocks the dumps are made of
BlockPool ==
    {BlockDesc("comment", 4, "full", 1, FALSE, <<>>),
     BlockDesc("comment", 4, "edited", 2, TRUE,
               <<ReplyDesc(4, "bare", 1), ReplyDesc(4, "spaced", 2)>>),
     BlockDesc("comment", 4, "spaced", 1, TRUE, <<ReplyDesc(4, "full", 0)>>),
     BlockDesc("comment", 4, "bare", 0, TRUE, <<>>),
     BlockDesc("comment", 4, "extra", 1, FALSE, <<>>),
     BlockDesc("comment", 4, "badint", 1, FALSE, <<>>),
     BlockDesc("comment", 2, "bare", 0, FALSE, <<>>),
     BlockDesc("comment", 4, "full", 1, TRUE,
               <<ReplyDesc(4, "bare", 1), ReplyDesc(3, "bare", 0)>>),
     BlockDesc("comment", 2, "bare", 2, TRUE, <<ReplyDesc(4, "bare", 1)>>),
     BlockDesc("noise", 0, "bare", 0, FALSE, <<>>),
     BlockDesc("stray", 4, "full", 1, FALSE, <<>>),
     BlockDesc("blank", 0, "bare", 0, FALSE, <<>>)}

DumpDescs ==
    {[blocks |-> bs, closed |-> c] :
        bs \in UNION {[1..n -> BlockPool] : n \in 0..MaxBlocks}, c \in BOOLEAN}

\* No parse of a dump
ParIdle ==
    /\ dump = <<>>
    /\ desc = [blocks |-> <<>>, closed |-> FALSE]
    /\ blocks = <<>>
    /\ bi = 1
    /\ res = NoBlock
    /\ tops = <<>>
    /\ children = <<>>
    /\ parsed = <<>>
    /\ ppc = "idle"

-----------------------------------------------------------------------------
(* main(urls) of Automated_Selenium_Processing.py and process_videos(urls) *)
(* of sentiment_dashboard_prototype.py                                     *)

\* Most links in one argument list
MaxUrls == 3

\* The links the argument lists are drawn from: three shapes of the base
\* id (the last is its canonical link itself), another id, two malformed
\* strings, and one that urlparse raises on.
PoolShapes ==
    {[form |-> "url", scheme |-> "https", host |-> "youtu.be", path |-> "id",
      query |-> "si", id |-> BaseId, pad |-> FALSE],
     [form |-> "url", scheme |-> "https", host |-> "m.YouTube.com",
      path |-> "shorts", query |-> "none", id |-> BaseId, pad |-> FALSE],
     [form |-> "url", scheme |-> "https", host |-> "www.youtube.com",
      path |-> "watch", query |-> "v", id |-> BaseId, pad |-> FALSE],
     [form |-> "url", scheme |-> "https", host |-> "www.youtube.com",
      path |-> "watch", query |-> "v&si", id |-> [BaseId EXCEPT ![IdLen] = "A"],
      pad |-> FALSE],
     [form |-> "url", scheme |-> "https", host |-> "example.com",
      path |-> "watch", query |-> "v", id |-> BaseId, pad |-> FALSE],
     [form |-> "blank", scheme |-> "none", host |-> "[x", path |-> "none",
      query |-> "none", id |-> <<>>, pad |-> TRUE],
     [form |-> "url", scheme |-> "https", host |-> "[x", path |-> "id",
      query |-> "none", id |-> BaseId, pad |-> FALSE]}

Pool == {Build(sh) : sh \in PoolShapes}

UrlLists == UNION {[1..n -> Pool] : n \in 0..MaxUrls}

\* What get_comments and the parse of its dump can end in: a dump parsed,
\* or an exception (a Selenium TimeoutException, or one of the parse).
ScrapeOutcomes == {"ok", "raise"}

ResInit ==
    /\ urls \in UrlLists
    /\ pc = "dedupe"
    /\ ui = 1
    /\ ci = 1
    /\ ri = 1
    /\ seen = {}
    /\ cleaned = <<>>
    /\ malformed = <<>>
    /\ duplicates = <<>>
    /\ reachable = <<>>
    /\ broken = <<>>
    /\ unreachable = {}
    /\ probes = <<>>
    /\ driver = "none"
    /\ outdir = FALSE
    /\ scraped = <<>>
    /\ written = <<>>
    /\ printed = <<>>

\* No run of main / process_videos
ResIdle ==
    /\ urls = <<>>
    /\ pc = "idle"
    /\ ui = 1
    /\ ci = 1
    /\ ri = 1
    /\ seen = {}
    /\ cleaned = <<>>
    /\ malformed = <<>>
    /\ duplicates = <<>>
    /\ reachable = <<>>
    /\ broken = <<>>
    /\ unreachable = {}
    /\ probes = <<>>
    /\ driver = "none"
    /\ outdir = FALSE
    /\ scraped = <<>>
    /\ written = <<>>
    /\ printed = <<>>

\* No call of normalize_url on its own
NormIdle ==
    /\ url = <<>>
    /\ shape = [form |-> "blank", scheme |-> "none", host |-> "[x",
                path |-> "none", query |-> "none", id |-> <<>>, pad |-> FALSE]
    /\ norm = None
    /\ npc = "idle"

\* The lists of the first loop, as one value
Lists == [seen |-> seen, cleaned |-> cleaned, malformed |-> malformed,
          duplicates |-> duplicates]

\* Sort with seen.add(norm) forgotten
Sort_NoSeenAdd(st, u, n) ==
    IF n = None \/ n.val = <<>>
    THEN [st EXCEPT !.malformed = Append(st.malformed, u)]
    ELSE IF n.val \in st.seen
    THEN [st EXCEPT !.duplicates = Append(st.duplicates, n.val)]
    ELSE [st EXCEPT !.cleaned = Append(st.cleaned, n.val)]

\* Sort with a duplicate dropped without a record of it
Sort_DropDuplicate(st, u, n) ==
    IF n = None \/ n.val = <<>>
    THEN [st EXCEPT !.malformed = Append(st.malformed, u)]
    ELSE IF n.val \in st.seen
    THEN st
    ELSE [st EXCEPT !.seen = st.seen \cup {n.val},
                    !.cleaned = Append(st.cleaned, n.val)]

\* Sort with malformed.insert(0, u) for malformed.append(u)
Sort_Prepend(st, u, n) ==
    IF n = None \/ n.val = <<>>
    THEN [st EXCEPT !.malformed = <<u>> \o st.malformed]
    ELSE IF n.val \in st.seen
    THEN [st EXCEPT !.duplicates = Append(st.duplicates, n.val)]
    ELSE [st EXCEPT !.seen = st.seen \cup {n.val},
                    !.cleaned = Append(st.cleaned, n.val)]

\* Sort with the stripped string recorded as malformed
Sort_StripMalformed(st, u, n) ==
    IF n = None \/ n.val = <<>>
    THEN [st EXCEPT !.malformed = Append(st.malformed, Strip(u))]
    ELSE IF n.val \in st.seen
    THEN [st EXCEPT !.duplicates = Append(st.duplicates, n.val)]
    ELSE [st EXCEPT !.seen = st.seen \cup {n.val},
                    !.cleaned = Append(st.cleaned, n.val)]

\* The body of the loop after the call of normalize_url: "if not norm"
\* (None, or an empty string), "elif norm in seen", "else".
Sort(st, u, n) ==
    IF n = None \/ n.val = <<>>
    THEN [st EXCEPT !.malformed = Append(st.malformed, u)]
    ELSE IF n.val \in st.seen
    THEN [st EXCEPT !.duplicates = Append(st.duplicates, n.val)]
    ELSE [st EXCEPT !.seen = st.seen \cup {n.val},
                    !.cleaned = Append(st.cleaned, n.val)]

\* One pass of the loop "for u in urls": normalize, then malformed,
\* duplicate or new.  An exception of normalize_url leaves the function.
Dedupe ==
    /\ pc = "dedupe"
    /\ ui <= Len(urls)
    /\ IF normalize_url(variant, urls[ui]).kind \notin {"None", "str"}
       THEN /\ pc' = "raised"
            /\ UNCHANGED <<ui, seen, cleaned, malformed, duplicates>>
       ELSE LET st == Sort(Lists, urls[ui], normalize_url(variant, urls[ui]))
            IN  /\ pc' = pc
                /\ ui' = ui + 1
                /\ seen' = st.seen
                /\ cleaned' = st.cleaned
                /\ malformed' = st.malformed
                /\ duplicates' = st.duplicates
    /\ UNCHANGED <<variant, urls, ci, ri, reachable, broken, unreachable,
                   probes, driver, outdir, scraped, written, printed,
                   normVars, parVars, sentVars>>

\* The loop is through.  The prototype prints what it ignored here, before
\* the probes; the other script prints after them.
DedupeEnd ==
    /\ pc = "dedupe"
    /\ ui > Len(urls)
    /\ pc' = "probe"
    /\ printed' =
         IF variant = "prototype"
         THEN printed
                \o (IF malformed # <<>> THEN <<"malformed">> ELSE <<>>)
                \o (IF duplicates # <<>> THEN <<"duplicates">> ELSE <<>>)
         ELSE printed
    /\ UNCHANGED <<variant, urls, ui, ci, ri, seen, cleaned, malformed, duplicates,
                   reachable, broken, unreachable, probes, driver, outdir,
                   scraped, written, normVars, parVars, sentVars>>

\* One pass of the loop over cleaned: one GET, and the link goes to
\* reachable or (in the Selenium script) to broken.
Probe ==
    /\ pc = "probe"
    /\ ci <= Len(cleaned)
    /\ \E o \in ProbeOutcomes :
         LET u == cleaned[ci]
             r == is_url_reachable(o)
         IN  /\ probes' = Append(probes, <<u, o>>)
             /\ IF r = "raise"
                THEN /\ pc' = "raised"
                     /\ UNCHANGED <<ci, reachable, broken>>
                ELSE /\ pc' = pc
                     /\ ci' = ci + 1
                     /\ reachable' = IF r = "True" THEN Append(reachable, u)
                                     ELSE reachable
                     /\ broken' = IF r = "False" /\ variant = "selenium"
                                  THEN Append(broken, u) ELSE broken
    /\ UNCHANGED <<variant, urls, ui, ri, seen, cleaned, malformed, duplicates,
                   unreachable, driver, outdir, scraped, written, printed,
                   normVars, parVars, sentVars>>

\* The lines the Selenium script prints after the probes
ReportLines ==
    (IF malformed # <<>> THEN <<"malformed">> ELSE <<>>)
    \o (IF duplicates # <<>> THEN <<"duplicates">> ELSE <<>>)
    \o (IF broken # <<>> THEN <<"unreachable">> ELSE <<>>)

\* AfterReport with make_driver() called before the test of reachable
AfterReport_DriverFirst(v, reach) ==
    IF reach = <<>>
    THEN [pc |-> "done", says |-> <<"nothing to process">>, mkdir |-> FALSE,
          driver |-> TRUE]
    ELSE [pc |-> "scrape", says |-> <<>>, mkdir |-> (v = "selenium"),
          driver |-> TRUE]

\* "if not reachable: print(...); return", and what follows it otherwise:
\* os.makedirs(OUTPUT_DIR) in the Selenium script, and make_driver().
AfterReport(v, reach) ==
    IF reach = <<>>
    THEN [pc |-> "done", says |-> <<"nothing to process">>, mkdir |-> FALSE,
          driver |-> FALSE]
    ELSE [pc |-> "scrape", says |-> <<>>, mkdir |-> (v = "selenium"),
          driver |-> TRUE]

\* After the probes: the report, then either "nothing to process" and the
\* return, or the output directory (Selenium script) and the driver.
Report ==
    /\ pc = "probe"
    /\ ci > Len(cleaned)
    /\ unreachable' = IF variant = "prototype"
                      THEN Range(cleaned) \ Range(reachable)
                      ELSE unreachable
    /\ LET lines == IF variant = "selenium" THEN ReportLines
                    ELSE IF unreachable' # {} THEN <<"unreachable">>
                    ELSE <<>>
           then  == AfterReport(variant, reachable)
       IN  /\ printed' = printed \o lines \o then.says
           /\ pc' = then.pc
           /\ outdir' = (outdir \/ then.mkdir)
           /\ driver' = IF then.driver THEN "open" ELSE driver
    /\ UNCHANGED <<variant, urls, ui, ci, ri, seen, cleaned, malformed,
                   duplicates, reachable, broken, probes, scraped, written,
                   normVars, parVars, sentVars>>

\* One pass of the loop over reachable: get_comments and the parse of its
\* dump; the Selenium script writes video_<idx>.json.  An exception leaves
\* the function, past driver.quit() in the Selenium script and through the
\* finally clause that quits the driver in the prototype.
Scrape ==
    /\ pc = "scrape"
    /\ ri <= Len(reachable)
    /\ \E o \in ScrapeOutcomes :
         IF o = "ok"
         THEN /\ scraped' = Append(scraped, reachable[ri])
              /\ written' = IF variant = "selenium"
                            THEN Append(written, <<"video.json", ri>>)
                            ELSE written
              /\ ri' = ri + 1
              /\ UNCHANGED <<pc, driver>>
         ELSE /\ pc' = "raised"
              /\ driver' = IF variant = "prototype" THEN "quit" ELSE driver
              /\ UNCHANGED <<ri, scraped, written>>
    /\ UNCHANGED <<variant, urls, ui, ci, seen, cleaned, malformed, duplicates,
                   reachable, broken, unreachable, probes, outdir, printed,
                   normVars, parVars, sentVars>>

\* The loop over reachable is through: the driver quits, the Selenium
\* script prints its summary, the prototype writes its dashboard.
Finish ==
    /\ pc = "scrape"
    /\ ri > Len(reachable)
    /\ driver' = "quit"
    /\ printed' = Append(printed, "summary")
    /\ written' = IF variant = "prototype"
                  THEN Append(written, <<"sentiment_dashboard.html", 0>>)
                  ELSE written
    /\ pc' = "done"
    /\ UNCHANGED <<variant, urls, ui, ci, ri, seen, cleaned, malformed, duplicates,
                   reachable, broken, unreachable, probes, outdir, scraped,
                   normVars, parVars, sentVars>>

-----------------------------------------------------------------------------
(* deepseek_sentiment of survey_pipeline.py: the labels, the answers a     *)
(* request can meet, and what one pass of the retry loop makes of them.    *)
(* A confidence is written in hundredths (0.9 is 90).                      *)

\* MAX_RETRIES of survey_pipeline.py
MAX_RETRIES == 3

\* "NEGATIVE"
NEGATIVE == <<"N","E","G","A","T","I","V","E">>

\* "NEUTRAL"
NEUTRAL == <<"N","E","U","T","R","A","L">>

\* "POSITIVE"
POSITIVE == <<"P","O","S","I","T","I","V","E">>

\* s.upper()
Upper(s) ==
    [k \in 1..Len(s) |->
        IF s[k] \in Range(LowerAlpha)
        THEN UpperAlpha[CHOOSE j \in 1..26 : LowerAlpha[j] = s[k]]
        ELSE s[k]]

\* A value of the JSON object the model answers with: a field that is
\* missing, null, a number or a string
Absent == [t |-> "absent", n |-> 0, s |-> <<>>]

Null == [t |-> "null", n |-> 0, s |-> <<>>]

Num(n) == [t |-> "num", n |-> n, s |-> <<>>]

JStr(s) == [t |-> "str", n |-> 0, s |-> s]

\* data.get(key, default)
Get(field, default) == IF field.t = "absent" THEN default ELSE field

\* str(x) of a JSON value that is a string or null
str(x) == IF x.t = "null" THEN <<"N","o","n","e">> ELSE x.s

\* What the call returns, or the exception that leaves it
Returned(label, conf) == [kind |-> "return", label |-> label, conf |-> conf, exc |-> ""]

Throws(e) == [kind |-> "raise", label |-> <<>>, conf |-> 0, exc |-> e]

\* float(x): a number as it is, a string of digits as the number it writes,
\* ValueError for another string, TypeError for None
float(x) ==
    IF x.t = "num" THEN Returned(<<>>, x.n)
    ELSE IF x.t = "null" THEN Throws("TypeError")
    ELSE IF x.s # <<>> /\ \A k \in 1..Len(x.s) : x.s[k] \in Digits
         THEN Returned(<<>>, 100 * DigitsVal(x.s))
    ELSE Throws("ValueError")

\* lines 153-154: a label that is none of the three becomes NEUTRAL
Clamp(label) ==
    IF label \notin {NEGATIVE, NEUTRAL, POSITIVE} THEN NEUTRAL ELSE label

\* lines 151-155: label, conf, the test of the label and the return
Answer(data) ==
    IF float(Get(data.confidence, Num(0))).kind = "raise"
    THEN float(Get(data.confidence, Num(0)))
    ELSE Returned(Clamp(Upper(str(Get(data.label, JStr(NEUTRAL))))),
                  float(Get(data.confidence, Num(0))).conf)

\* lines 147-155: the body of try for one answer of the endpoint: post,
\* raise_for_status, r.json()["choices"][0]["message"]["content"],
\* json.loads, data.get
TryBody(resp) ==
    IF resp.post # "ok" THEN Throws(resp.post)
    ELSE IF resp.status >= 400 THEN Throws("HTTPError")
    ELSE IF resp.body = "html" THEN Throws("JSONDecodeError")
    ELSE IF resp.body = "error" THEN Throws("KeyError")
    ELSE IF resp.body = "nochoices" THEN Throws("IndexError")
    ELSE IF resp.content = "prose" THEN Throws("JSONDecodeError")
    ELSE IF resp.content = "list" THEN Throws("AttributeError")
    ELSE Answer(resp)

\* The exceptions of requests only
Caught_RequestsOnly(e) == e \in {"Timeout", "ConnectionError", "HTTPError"}

\* line 156: except Exception catches every exception the body of try can throw
Caught(e) ==
    e \in {"Timeout", "ConnectionError", "HTTPError", "JSONDecodeError",
           "KeyError", "IndexError", "AttributeError", "ValueError", "TypeError"}

\* The texts of the calls: "", " ", " \n", "ok", " ok "
BlankTexts == {<<>>, <<" ">>, <<" ", "\n">>}

FilledTexts == {<<"o","k">>, <<" ","o","k"," ">>}

\* The label and confidence fields of an answer
LabelFields ==
    {Absent, Null, JStr(<<"p","o","s","i","t","i","v","e">>), JStr(NEGATIVE),
     JStr(<<"m","i","x","e","d">>)}

ConfFields == {Absent, Null, Num(90), JStr(<<"1">>), JStr(<<"h","i","g","h">>)}

\* An answer with status 200 whose content is a JSON object
Answered(l, c) ==
    [post |-> "ok", status |-> 200, body |-> "choices", content |-> "object",
     label |-> l, confidence |-> c]

\* What a request can meet: no connection, a timeout, an error status, a
\* body that is no JSON, has no choices or an empty list of them, a content
\* that is no JSON or no object, and the objects
ResponsePool ==
    {[Answered(Absent, Absent) EXCEPT !.post = e] :
        e \in {"Timeout", "ConnectionError"}}
    \cup {[Answered(Absent, Absent) EXCEPT !.status = c] : c \in {429, 500}}
    \cup {[Answered(Absent, Absent) EXCEPT !.body = b] :
            b \in {"html", "error", "nochoices"}}
    \cup {[Answered(Absent, Absent) EXCEPT !.content = c] :
            c \in {"prose", "list"}}
    \cup {Answered(l, c) : l \in LabelFields, c \in ConfFields}

SentIdle ==
    /\ txt = <<>>
    /\ attempt = 0
    /\ posts = 0
    /\ log = <<>>
    /\ sresult = Returned(<<>>, 0)
    /\ spc = "idle"

vars == <<variant, normVars, resVars, parVars, sentVars>>

Init ==
    /\ variant \in Variants
    /\ ResInit
    /\ NormIdle
    /\ ParIdle
    /\ SentIdle

Next == Dedupe \/ DedupeEnd \/ Probe \/ Report \/ Scrape \/ Finish

Spec == Init /\ [][Next]_vars

-----------------------------------------------------------------------------
(* SpecNorm: one call of normalize_url on one string                       *)

InitNorm ==
    /\ variant \in Variants
    /\ shape \in Shapes
    /\ url = Build(shape)
    /\ norm = None
    /\ npc = "call"
    /\ ResIdle
    /\ ParIdle
    /\ SentIdle

\* norm = normalize_url(url)
NormCall ==
    /\ npc = "call"
    /\ norm' = normalize_url(variant, url)
    /\ npc' = "returned"
    /\ UNCHANGED <<variant, url, shape, resVars, parVars, sentVars>>

NextNorm == NormCall

SpecNorm == InitNorm /\ [][NextNorm]_vars

-----------------------------------------------------------------------------
(* SpecParse: the parse of one dump, as get_comments of the prototype and  *)
(* the loop of main of the Selenium script do it                           *)

InitParse ==
    /\ variant \in Variants
    /\ desc \in DumpDescs
    /\ dump = DumpText(desc.blocks, desc.closed)
    /\ blocks = <<>>
    /\ bi = 1
    /\ res = NoBlock
    /\ tops = <<>>
    /\ children = <<>>
    /\ parsed = <<>>
    /\ ppc = "split"
    /\ ResIdle
    /\ NormIdle
    /\ SentIdle

\* The dump is cut into blocks
SplitDump ==
    /\ ppc = "split"
    /\ blocks' = BlocksOf(variant, dump)
    /\ ppc' = "loop"
    /\ UNCHANGED <<variant, dump, desc, bi, res, tops, children, parsed,
                   resVars, normVars, sentVars>>

\* What the loop does with the result of one block: nothing for None; the
\* prototype keeps the parent in tops and the replies in children, the
\* Selenium script keeps the record in parsed.
Keep(v, st, r) ==
    IF r.kind = "None" THEN st
    ELSE IF v = "selenium"
    THEN [st EXCEPT !.parsed = Append(st.parsed, r.parent)]
    ELSE [st EXCEPT !.tops = Append(st.tops, r.parent),
                    !.children = st.children \o r.replies]

\* One pass of the loop over blocks: parse_comment_block, and the records
\* kept.  An exception of the parse leaves the function.
ParseBlock ==
    /\ ppc = "loop"
    /\ bi <= Len(blocks)
    /\ res' = parse_comment_block(variant, blocks[bi])
    /\ IF res'.kind \notin {"None", "ok"}
       THEN /\ ppc' = "raised"
            /\ UNCHANGED <<bi, tops, children, parsed>>
       ELSE LET st == Keep(variant,
                           [tops |-> tops, children |-> children,
                            parsed |-> parsed], res')
            IN  /\ ppc' = ppc
                /\ bi' = bi + 1
                /\ tops' = st.tops
                /\ children' = st.children
                /\ parsed' = st.parsed
    /\ UNCHANGED <<variant, dump, desc, blocks, resVars, normVars, sentVars>>

\* The loop is through: parsed = tops + children in the prototype
Collect ==
    /\ ppc = "loop"
    /\ bi > Len(blocks)
    /\ parsed' = IF variant = "prototype" THEN tops \o children ELSE parsed
    /\ ppc' = "done"
    /\ UNCHANGED <<variant, dump, desc, blocks, bi, res, tops, children,
                   resVars, normVars, sentVars>>

NextParse == SplitDump \/ ParseBlock \/ Collect

SpecParse == InitParse /\ [][NextParse]_vars

-----------------------------------------------------------------------------
(* SpecSent: one call of deepseek_sentiment                                *)

InitSent ==
    /\ variant = "survey"
    /\ txt \in BlankTexts \cup FilledTexts
    /\ attempt = 0
    /\ posts = 0
    /\ log = <<>>
    /\ sresult = Returned(<<>>, 0)
    /\ spc = "call"
    /\ ResIdle
    /\ NormIdle
    /\ ParIdle

\* lines 129-130: no request for a text that is empty or all whitespace
Enter ==
    /\ spc = "call"
    /\ IF txt = <<>> \/ Strip(txt) = <<>>
       THEN /\ sresult' = Returned(NEUTRAL, 0)
            /\ spc' = "returned"
       ELSE /\ spc' = "loop"
            /\ UNCHANGED sresult
    /\ UNCHANGED <<variant, txt, attempt, posts, log, resVars, normVars, parVars>>

\* lines 145-157: one pass of for _ in range(MAX_RETRIES): the request, and
\* either the return or the sleep of except
Attempt ==
    /\ spc = "loop"
    /\ attempt < MAX_RETRIES
    /\ \E resp \in ResponsePool :
        /\ posts' = posts + 1
        /\ log' = Append(log, resp)
        /\ IF TryBody(resp).kind = "return"
           THEN /\ sresult' = TryBody(resp)
                /\ spc' = "returned"
                /\ UNCHANGED attempt
           ELSE IF Caught(TryBody(resp).exc)
           THEN /\ attempt' = attempt + 1
                /\ UNCHANGED <<sresult, spc>>
           ELSE /\ sresult' = TryBody(resp)
                /\ spc' = "raised"
                /\ UNCHANGED attempt
    /\ UNCHANGED <<variant, txt, resVars, normVars, parVars>>

\* line 158: the loop is through
GiveUp ==
    /\ spc = "loop"
    /\ attempt = MAX_RETRIES
    /\ sresult' = Returned(NEUTRAL, 0)
    /\ spc' = "returned"
    /\ UNCHANGED <<variant, txt, attempt, posts, log, resVars, normVars, parVars>>

NextSent == Enter \/ Attempt \/ GiveUp

SpecSent == InitSent /\ [][NextSent]_vars

\* The call runs on: the request has a timeout (TIMEOUT) and the sleep of
\* except is one second, so a step that can be taken is taken
SpecSentLive == SpecSent /\ WF_vars(NextSent)

-----------------------------------------------------------------------------
(* Claims about normalize_url (SpecNorm)                                   *)

\* The canonical link of an id, written out
CanonicalOf(id) ==
    <<"h","t","t","p","s",":","/","/","w","w","w",".","y","o","u","t","u","b","e",".","c","o","m","/","w","a","t","c","h","?","v","=">> \o id

YouTubeHostTags == {"www.youtube.com", "m.YouTube.com"}

\* The three accepted link shapes, by how the string was put together: a
\* youtu.be/<id> link, a .../shorts/<id> link and a .../watch?v=<id> link,
\* each with or without a share token beside it
IsYoutuBeForm(sh) ==
    /\ sh.form = "url" /\ sh.scheme = "https" /\ sh.host = "youtu.be"
    /\ sh.path = "id" /\ sh.query \in {"none", "si"}

IsShortsForm(sh) ==
    /\ sh.form = "url" /\ sh.scheme = "https" /\ sh.host \in YouTubeHostTags
    /\ sh.path = "shorts" /\ sh.query \in {"none", "si"}

IsWatchForm(sh) ==
    /\ sh.form = "url" /\ sh.scheme = "https" /\ sh.host \in YouTubeHostTags
    /\ sh.path = "watch" /\ sh.query \in {"v", "v&si", "si&v"}

AcceptedForm(sh) == IsYoutuBeForm(sh) \/ IsShortsForm(sh) \/ IsWatchForm(sh)

\* C1: for every id matching [A-Za-z0-9_-]{11}, normalize_url of the
\* youtu.be/<id> link, of the .../shorts/<id> link and of the
\* .../watch?v=<id> link, with or without a share token, is the one string
\* https://www.youtube.com/watch?v=<id>.
C1_ThreeShapesOneCanonical ==
    (npc = "returned" /\ AcceptedForm(shape) /\ shape.id \in ValidIds)
        => norm = Str(CanonicalOf(shape.id))

\* C1 witness: a youtu.be link with a share token and an id other than the
\* base id has been normalized to a string.
C1_Witness ==
    /\ npc = "returned"
    /\ IsYoutuBeForm(shape) /\ shape.query = "si"
    /\ shape.id \in ValidIds \ {BaseId}
    /\ norm.kind = "str"

\* The strings of C2, by how they were put together.
\* Blank: empty or only blanks.
IsBlankInput(sh) == sh.form = "blank"

\* A host that is neither youtu.be nor holds youtube.com: example.com, or no
\* host at all (without "//" the whole string is a path).  A string with
\* "https://[x" has no host to speak of: urlparse raises ValueError on the
\* unbalanced bracket and normalize_url lets it through; it is none of the
\* cases of C2.
HasOtherHost(sh) ==
    /\ sh.form = "url"
    /\ \/ sh.scheme = "none"
       \/ sh.scheme = "https" /\ sh.host = "example.com"

\* An extracted id that does not match: an accepted shape around an id of
\* 10 or 12 characters or with a character outside the class, a watch link
\* with no v parameter, a youtu.be link whose path is more than an id.
HasBadId(sh) ==
    \/ AcceptedForm(sh) /\ sh.id \in InvalidIds
    \/ /\ sh.form = "url" /\ sh.scheme = "https" /\ sh.host \in YouTubeHostTags
       /\ sh.path = "watch" /\ sh.query \in {"none", "si"}
    \/ /\ sh.form = "url" /\ sh.scheme = "https" /\ sh.host = "youtu.be"
       /\ sh.path \in {"shorts", "shorts/", "watch", "embed", "none"}

\* A YouTube path that starts with neither watch nor shorts/
HasOtherPath(sh) ==
    /\ sh.form = "url" /\ sh.scheme = "https" /\ sh.host \in YouTubeHostTags
    /\ sh.path \in {"embed", "none", "id"}

-----------------------------------------------------------------------------
(* Claims about main / process_videos (Spec)                               *)

\* normalize_url of every link of the pool, for each script
NormOf == [v \in Variants |-> [u \in Pool |-> normalize_url(v, u)]]

\* normalize_url of the k-th link of the argument
N(k) == NormOf[variant][urls[k]]

\* The positions, among the first n links, of the links normalize_url
\* returns None for
MalformedAt(n) == {k \in 1..n : N(k) = None}

\* ... of the links that are the first with their canonical link
FirstAt(n) ==
    {k \in 1..n : N(k).kind = "str" /\ \A m \in 1..(k - 1) : N(m) # N(k)}

\* ... of the links whose canonical link an earlier link has
LaterAt(n) ==
    {k \in 1..n : N(k).kind = "str" /\ \E m \in 1..(k - 1) : N(m) = N(k)}

\* The p-th smallest member of a set P of numbers
Nth(P, p) == CHOOSE q \in P : Cardinality({r \in P : r < q}) = p - 1

\* The entries of f at the positions P, in the order of the positions
SubseqAt(f, P) == [p \in 1..Cardinality(P) |-> f[Nth(P, p)]]

\* The canonical links of the argument, by position (<<>> where None)
Canon == [k \in 1..Len(urls) |-> N(k).val]

\* The links sorted so far by the first loop
Sorted == ui - 1

\* The probes are over and the report is made: the run is past the return
\* of "nothing to process" or in the scraping that follows (where an
\* exception finds the driver made).
Resolved == pc \in {"scrape", "done"} \/ (pc = "raised" /\ driver # "none")

\* The links found unreachable: the list broken of the Selenium script, the
\* set unreachable of the prototype
Unreachable == IF variant = "selenium" THEN Range(broken) ELSE unreachable

NoRepeat(f) == \A a, b \in 1..Len(f) : a # b => f[a] # f[b]

\* C3: in the resolve loop cleaned never holds two equal canonical links;
\* it holds the canonical link of each distinct video in first-seen order;
\* each later link with a canonical link already seen adds one entry to
\* duplicates and none to cleaned.
C3_FirstSeenWins ==
    /\ NoRepeat(cleaned)
    /\ cleaned = SubseqAt(Canon, FirstAt(Sorted))
    /\ duplicates = SubseqAt(Canon, LaterAt(Sorted))
    /\ seen = Range(cleaned)

\* C3 witness: two different strings with the same canonical link have been
\* sorted: one entry in cleaned, one in duplicates.
C3_Witness ==
    /\ Len(urls) = 2 /\ ui = 3
    /\ urls[1] # urls[2]
    /\ Len(cleaned) = 1 /\ Len(duplicates) = 1
    /\ duplicates[1] = cleaned[1]

\* C4: after resolve every input is accounted for once: each position is in
\* one of malformed, duplicates, cleaned (so the three lengths add up to the
\* number of inputs), and each cleaned link is in exactly one of reachable
\* and unreachable.
C4_EveryInputOnce ==
    Resolved =>
        /\ Len(malformed) = Cardinality(MalformedAt(Len(urls)))
        /\ Len(cleaned) = Cardinality(FirstAt(Len(urls)))
        /\ Len(duplicates) = Cardinality(LaterAt(Len(urls)))
        /\ Len(malformed) + Len(duplicates) + Len(cleaned) = Len(urls)
        /\ \A c \in Range(cleaned) :
              (c \in Range(reachable)) # (c \in Unreachable)
        /\ Len(reachable) + Cardinality(Unreachable) = Len(cleaned)
        /\ NoRepeat(reachable) /\ NoRepeat(broken)

\* C4 witness: three inputs, one of each kind, and the one cleaned link
\* found unreachable.
C4_Witness ==
    /\ Resolved
    /\ Len(urls) = 3
    /\ Len(malformed) = 1 /\ Len(duplicates) = 1 /\ Len(cleaned) = 1
    /\ cleaned[1] \in Unreachable

\* Whether the list f keeps the order of the list g it was taken from
InOrderOf(f, g) ==
    \E P \in SUBSET (1..Len(g)) : f = SubseqAt(g, P)

C6_MalformedEchoed ==
    /\ malformed = SubseqAt(urls, MalformedAt(Sorted))
    /\ (MalformedAt(Len(urls)) = 1..Len(urls)) =>
          /\ probes = <<>>
          /\ reachable = <<>>
          /\ Resolved => malformed = urls

\* C6 witness: a run over two different malformed strings, one of them all
\* blanks, is over.
C6_Witness ==
    /\ pc = "done"
    /\ Len(urls) = 2
    /\ urls[1] # urls[2]
    /\ Strip(urls[1]) = <<>> /\ urls[1] # <<>>
    /\ malformed = urls

\* The links probed so far, in the order of the probes
Probed == [p \in 1..Len(probes) |-> probes[p][1]]

\* The probes that came back with status 200
OkProbes ==
    {p \in 1..Len(probes) :
        probes[p][2].kind = "response" /\ probes[p][2].status = 200}

\* C7: after deduplication every cleaned link is probed exactly once, none
\* twice, none skipped, none from outside cleaned; a link is in reachable
\* iff its probe came back with status 200; reachable keeps the order of
\* cleaned.
C7_ProbedOnce ==
    /\ Probed = SubSeq(cleaned, 1, ci - 1)
    /\ reachable = SubseqAt(Probed, OkProbes)
    /\ Resolved => Probed = cleaned

\* C7 witness: two cleaned links, the first answered 404 and the second 200.
C7_Witness ==
    /\ Resolved
    /\ Len(cleaned) = 2
    /\ probes[1][2].kind = "response" /\ probes[1][2].status = 404
    /\ reachable = <<cleaned[2]>>

\* The probes that ended in a transport failure
FailedProbes == {p \in 1..Len(probes) : probes[p][2].kind = "RequestException"}

\* C8: a transport failure of the probe makes is_url_reachable return
\* False after one attempt: nothing is raised (the loop goes on past the
\* link), the link is classified unreachable, it is not probed again, and
\* the cleaned links after it are probed.
C8_FailureIsUnreachable ==
    \A p \in FailedProbes :
        /\ pc # "raised" \/ driver # "none"
        /\ ci > p
        /\ probes[p][1] \notin Range(reachable)
        /\ variant = "selenium" => probes[p][1] \in Range(broken)
        /\ Resolved => probes[p][1] \in Unreachable
        /\ Cardinality({q \in 1..Len(probes) : probes[q][1] = probes[p][1]}) = 1
        /\ Resolved => Len(probes) = Len(cleaned)

\* C8 witness: the probe of the first of two cleaned links failed in the
\* transport and the second link was probed and found reachable.
C8_Witness ==
    /\ Resolved
    /\ Len(cleaned) = 2
    /\ 1 \in FailedProbes
    /\ reachable = <<cleaned[2]>>

\* C9: if reachable is empty after the probes, the run reports that and
\* returns: no driver, no video scraped, no file written (and no output
\* directory made).
C9_NothingToProcess ==
    (Resolved /\ reachable = <<>>) =>
        /\ pc = "done"
        /\ printed # <<>> /\ printed[Len(printed)] = "nothing to process"
        /\ driver = "none"
        /\ scraped = <<>>
        /\ written = <<>>
        /\ outdir = FALSE

\* C9 witness: a run whose one cleaned link was probed and found
\* unreachable has returned.
C9_Witness ==
    /\ pc = "done"
    /\ Len(cleaned) = 1 /\ Len(probes) = 1
    /\ reachable = <<>>
    /\ printed[Len(printed)] = "nothing to process"

-----------------------------------------------------------------------------
(* Claims about the parse of the dump (SpecParse)                          *)

\* The block parse_comment_block was last called on: the one the loop
\* stands at when the call raised, the one before otherwise (0: none yet)
LastParsed ==
    IF ppc = "raised" THEN bi
    ELSE IF ppc \in {"loop", "done"} THEN bi - 1
    ELSE 0

\* The blocks of the dump whose text is the given text, blanks around it
\* aside
DescsOf(text) ==
    {b \in 1..Len(desc.blocks) :
        Strip(BlockText(desc.blocks[b], b)) = Strip(text)}

\* A header is complete: the four lines under the marker are there, and the
\* like: and reply: values of the metadata line are integers
CompleteHeader(d) == d.hdr = 4 /\ d.meta # "badint"

\* A comment block with a "Replies:" section, its header and the headers of
\* its replies complete
WithReplies(bd) ==
    /\ bd.kind = "comment"
    /\ bd.section
    /\ CompleteHeader(bd)
    /\ \A r \in 1..Len(bd.replies) : CompleteHeader(bd.replies[r])

\* C10: the prototype's parse of a block whose "Replies:" section holds k
\* "[REPLY]" sub-blocks with complete headers returns the parent record and
\* exactly k reply records, every reply's parent_id being the comment_url
\* of the parent; a dump of that one block gives 1 + k records (three for
\* k = 2).
C10_RepliesCarryParentId ==
    variant = "prototype" =>
      /\ LastParsed >= 1 =>
           \A b \in DescsOf(blocks[LastParsed]) :
              WithReplies(desc.blocks[b]) =>
                /\ res.kind = "ok"
                /\ res.parent.comment_url = ParentUrl(b)
                /\ res.parent.parent_id = None
                /\ Len(res.replies) = Len(desc.blocks[b].replies)
                /\ \A r \in 1..Len(res.replies) :
                      /\ res.replies[r].comment_url = ReplyUrl(b, r)
                      /\ res.replies[r].parent_id = Str(ParentUrl(b))
      /\ (ppc = "done" /\ Len(desc.blocks) = 1 /\ WithReplies(desc.blocks[1])) =>
           /\ Len(parsed) = 1 + Len(desc.blocks[1].replies)
           /\ parsed[1].parent_id = None
           /\ \A k \in 2..Len(parsed) :
                 parsed[k].parent_id = Str(parsed[1].comment_url)

\* C10 witness: the dump of one block with two replies has been parsed by
\* the prototype into three records, the second and third carrying the
\* comment_url of the first.
C10_Witness ==
    /\ variant = "prototype"
    /\ ppc = "done"
    /\ Len(desc.blocks) = 1
    /\ WithReplies(desc.blocks[1])
    /\ Len(desc.blocks[1].replies) = 2
    /\ Len(parsed) = 3
    /\ parsed[1].comment_url = ParentUrl(1)
    /\ parsed[2].parent_id = Str(ParentUrl(1))
    /\ parsed[3].parent_id = Str(ParentUrl(1))
    /\ parsed[2].comment_url # parsed[3].comment_url

\* The records of the output that are parents (no parent_id) with the given
\* comment_url, by position
ParentsOf(pid) ==
    {j \in 1..Len(parsed) :
        parsed[j].parent_id = None /\ Str(parsed[j].comment_url) = pid}

\* C11: in the records produced for one dump, every reply's parent_id
\* resolves to exactly one parent record (no parent_id, that comment_url),
\* and the parent stands earlier in the output than the reply.
C11_OneEarlierParent ==
    ppc = "done" =>
      \A k \in 1..Len(parsed) :
         parsed[k].parent_id # None =>
           /\ Cardinality(ParentsOf(parsed[k].parent_id)) = 1
           /\ \A j \in ParentsOf(parsed[k].parent_id) : j < k

\* C11, the failing run: two blocks without their comment-URL line (the
\* header of each is two lines short, so its first body line is read as
\* the comment_url) come out as two parents with one comment_url, and a
\* reply's parent_id resolves to both.
C11_TwoParentsOneUrl ==
    /\ variant = "prototype"
    /\ ppc = "done"
    /\ Len(desc.blocks) = 2
    /\ \E k \in 1..Len(parsed) :
          /\ parsed[k].parent_id # None
          /\ ParentsOf(parsed[k].parent_id) = {1, 2}

\* A comment block with a marker that is not followed by its four header
\* lines: the "[COMMENT]" marker, or (for the prototype, which alone reads
\* the replies) a "[REPLY]" marker
IncompleteHeader(v, bd) ==
    /\ bd.kind = "comment"
    /\ \/ bd.hdr < 4
       \/ /\ v = "prototype"
          /\ bd.section
          /\ \E r \in 1..Len(bd.replies) : bd.replies[r].hdr < 4

\* C12: a block whose "[COMMENT]" or "[REPLY]" marker is followed by fewer
\* than the four header lines is discarded whole: parse_comment_block
\* raises nothing and gives no record for it.
C12_IncompleteDiscarded ==
    LastParsed >= 1 =>
      \A b \in DescsOf(blocks[LastParsed]) :
         IncompleteHeader(variant, desc.blocks[b]) => res.kind = "None"

\* C12, the failing run: the parse of a block that ends two lines into its
\* header has left the loop with an IndexError.
C12_IndexErrorRaised ==
    /\ ppc = "raised"
    /\ res.kind = "IndexError"
    /\ \E b \in DescsOf(blocks[LastParsed]) :
          /\ desc.blocks[b].hdr = 2
          /\ desc.blocks[b].body = 0
          /\ ~desc.blocks[b].section

\* A block whose first non-blank line is not a "[COMMENT]" line, or that
\* has no non-blank line
Unmarked(bd) == bd.kind \in {"noise", "stray", "blank"}

\* The parent records kept so far
ParentsKept == IF variant = "selenium" THEN parsed ELSE tops

\* C13: for a block whose first non-blank line does not contain
\* "[COMMENT]" (a blank block too), whatever follows that line,
\* parse_comment_block returns None and raises nothing, and the block adds
\* no record: the output has at most one parent per "[COMMENT]"-headed block
\* and none at all when every block is unmarked.
C13_UnmarkedBlockIsNone ==
    /\ LastParsed >= 1 =>
         /\ Strip(blocks[LastParsed]) = <<>> => res = NoBlock
         /\ \A b \in DescsOf(blocks[LastParsed]) :
               Unmarked(desc.blocks[b]) => res = NoBlock /\ ppc # "raised"
    /\ Len(ParentsKept)
         <= Cardinality({b \in 1..Len(desc.blocks) : ~Unmarked(desc.blocks[b])})
    /\ (\A b \in 1..Len(desc.blocks) : Unmarked(desc.blocks[b])) =>
         /\ ppc # "raised"
         /\ tops = <<>> /\ children = <<>> /\ parsed = <<>>

\* C13 witness: of a dump of two blocks, the second with a line of text
\* above its "[COMMENT]" line, the second has been parsed to None and the
\* run is over with the one record of the first.
C13_Witness ==
    /\ ppc = "done"
    /\ Len(desc.blocks) = 2
    /\ desc.blocks[1].kind = "comment"
    /\ desc.blocks[2].kind = "stray"
    /\ LastParsed >= 1
    /\ 2 \in DescsOf(blocks[LastParsed])
    /\ res = NoBlock
    /\ Len(parsed) = 1

\* What the metadata lines of the dumps say, read by eye: the first
\* segment, the like: and reply: numbers, and whether "(edited)" is there
MetaSays(t) ==
    CASE t = "full" ->
           [posted |-> <<"3"," ","d","a","y","s"," ","a","g","o">>,
            likes |-> 12, replies |-> 4, edited |-> FALSE]
      [] t = "edited" ->
           [posted |-> <<"1"," ","d","a","y"," ","a","g","o">>,
            likes |-> 0, replies |-> 0, edited |-> TRUE]
      [] t = "bare" ->
           [posted |-> <<"2"," ","h","o","u","r","s"," ","a","g","o">>,
            likes |-> 0, replies |-> 0, edited |-> FALSE]
      [] t = "spaced" ->
           [posted |-> <<"5"," ","m","i","n"," ","a","g","o">>,
            likes |-> 7, replies |-> 1, edited |-> FALSE]
      [] t = "extra" ->
           [posted |-> <<"1"," ","d","a","y"," ","a","g","o">>,
            likes |-> 2, replies |-> 0, edited |-> FALSE]
      [] t = "badint" ->
           [posted |-> <<"1"," ","d","a","y"," ","a","g","o">>,
            likes |-> 0, replies |-> 0, edited |-> FALSE]

\* The four metadata fields of a record
MetaOf(d) ==
    [posted |-> d.posted, likes |-> d.likes, replies |-> d.replies,
     edited |-> d.edited]

\* A comment block with its header and the headers of its replies complete
WellFormed(bd) ==
    /\ bd.kind = "comment"
    /\ CompleteHeader(bd)
    /\ \A r \in 1..Len(bd.replies) : CompleteHeader(bd.replies[r])

\* C14: the metadata line is parsed into edited (true iff "(edited)" is in
\* the line), posted (the first "|"-separated segment, trimmed, "(edited)"
\* taken out), likes and replies (the integers of the like: and reply:
\* segments, 0 when absent), for the parent of a block and, in the
\* prototype, for its replies.
C14_MetadataLine ==
    LastParsed >= 1 =>
      \A b \in DescsOf(blocks[LastParsed]) :
         WellFormed(desc.blocks[b]) =>
           /\ res.kind = "ok"
           /\ MetaOf(res.parent) = MetaSays(desc.blocks[b].meta)
           /\ (variant = "prototype" /\ desc.blocks[b].section) =>
                 /\ Len(res.replies) = Len(desc.blocks[b].replies)
                 /\ \A r \in 1..Len(res.replies) :
                       MetaOf(res.replies[r])
                         = MetaSays(desc.blocks[b].replies[r].meta)

\* C14, the failing run: the prototype has parsed the metadata line
\* "1 day ago|pinned|like:2" and posted is "pinned", not the first segment.
C14_PostedOverwritten ==
    /\ variant = "prototype"
    /\ LastParsed >= 1
    /\ res.kind = "ok"
    /\ res.parent.posted = <<"p","i","n","n","e","d">>
    /\ res.parent.likes = 2
    /\ \E b \in DescsOf(blocks[LastParsed]) : desc.blocks[b].meta = "extra"

\* A text of several lines with the blanks around each line taken off
Trimmed(text) == Join(StripEach(Split(text, "\n")), <<"\n">>)

\* The body lines of a block, as the dump has them, joined by newlines
BodySays(bd) == Join(StripEach(BodyText(bd.body)), <<"\n">>)

\* C15: the comment of a parent record is the lines of the block after the
\* header, up to the "Replies:" line or the end of the block, joined by
\* newlines (blanks around a line aside); a block without a "Replies:"
\* section gives exactly one record, its replies field the count of the
\* metadata line.
C15_BodyUpToReplies ==
    /\ LastParsed >= 1 =>
         \A b \in DescsOf(blocks[LastParsed]) :
            WellFormed(desc.blocks[b]) =>
              /\ res.kind = "ok"
              /\ Trimmed(res.parent.comment) = BodySays(desc.blocks[b])
              /\ ~desc.blocks[b].section =>
                    /\ res.replies = <<>>
                    /\ res.parent.replies = MetaSays(desc.blocks[b].meta).replies
    /\ (/\ ppc = "done"
        /\ LastParsed = 1
        /\ Len(desc.blocks) = 1
        /\ WellFormed(desc.blocks[1])
        /\ ~desc.blocks[1].section) => Len(parsed) = 1

\* C15, the failing run: the Selenium script has parsed a block with a
\* "Replies:" section, and the comment of the record runs on through the
\* "Replies:" line and the replies under it.
C15_CommentRunsOn ==
    /\ variant = "selenium"
    /\ LastParsed >= 1
    /\ res.kind = "ok"
    /\ Contains(res.parent.comment, <<"\n">> \o REPLIES_ \o <<"\n">> \o MARK_REPLY)
    /\ \E b \in DescsOf(blocks[LastParsed]) :
          /\ WellFormed(desc.blocks[b])
          /\ Len(desc.blocks[b].replies) = 2

\* The metadata lines with a segment after the first that is neither
\* like:<int> nor reply:<int>: "pinned", and "like:1K"
UnrecognizedSegment(t) == t \in {"extra", "badint"}

\* A comment block with the four header lines under every marker
AllHeaderLines(bd) ==
    /\ bd.kind = "comment"
    /\ bd.hdr = 4
    /\ \A r \in 1..Len(bd.replies) :
          bd.replies[r].hdr = 4 /\ bd.replies[r].meta # "badint"

\* C16: a segment of the metadata line after the first that is not
\* like:<int> or reply:<int> is ignored: the parse does not fail on it (not
\* on a like: with a non-integer value either), and posted, likes, replies
\* and edited are what the other segments say.
C16_UnrecognizedIgnored ==
    LastParsed >= 1 =>
      \A b \in DescsOf(blocks[LastParsed]) :
         (AllHeaderLines(desc.blocks[b])
            /\ UnrecognizedSegment(desc.blocks[b].meta)) =>
           /\ res.kind = "ok"
           /\ MetaOf(res.parent) = MetaSays(desc.blocks[b].meta)

\* C16, the failing run: the parse of a block whose metadata line is
\* "1 day ago|like:1K" has left the loop with a ValueError.
C16_ValueErrorRaised ==
    /\ ppc = "raised"
    /\ res.kind = "ValueError"
    /\ \E b \in DescsOf(blocks[LastParsed]) :
          /\ desc.blocks[b].hdr = 4
          /\ desc.blocks[b].meta = "badint"

\* The texts of the blocks of the dump that are not blank, in order, blanks
\* around each aside
BlocksSay ==
    SubseqAt([b \in 1..Len(desc.blocks) |-> Strip(BlockText(desc.blocks[b], b))],
             {b \in 1..Len(desc.blocks) : desc.blocks[b].kind # "blank"})

NotEmpty(t) == t # <<>>

\* C17: the dump is cut at the "#####" delimiters, only blank blocks are
\* dropped and every other block goes to parse_comment_block: the blocks
\* parsed are the non-blank blocks of the dump, each once and in order, and
\* a dump of n blocks that each start with "[COMMENT]" and have a complete
\* header gives n parent records.
C17_NoBlockSkipped ==
    /\ ppc \in {"loop", "done", "raised"} =>
         SelectSeq(StripEach(blocks), NotEmpty) = BlocksSay
    /\ (ppc = "done" /\ \A b \in 1..Len(desc.blocks) : WellFormed(desc.blocks[b])) =>
         Len(ParentsKept) = Len(desc.blocks)

\* C17, the failing run: the Selenium script is through with a dump of two
\* complete "[COMMENT]" blocks, each under a "#####" line and a last
\* "#####" line under them, and has one record: the second block was never
\* parsed.
C17_SecondBlockSkipped ==
    /\ variant = "selenium"
    /\ ppc = "done"
    /\ desc.closed
    /\ Len(desc.blocks) = 2
    /\ \A b \in 1..2 : WellFormed(desc.blocks[b])
    /\ Len(blocks) = 1
    /\ Len(parsed) = 1
    /\ parsed[1].comment_url = ParentUrl(1)

\* C18: the two copies of normalize_url, the one of
\* Automated_Selenium_Processing.py and the one of
\* sentiment_dashboard_prototype.py, return the same result for every
\* input: whichever copy was called, the other one gives the result the
\* call returned.
C18_CopiesAgree ==
    npc = "returned" =>
        /\ variant = "selenium" => SDP_normalize_url(url) = norm
        /\ variant = "prototype" => ASP_normalize_url(url) = norm

\* The prototype copy has returned None for a host that is neither
\* youtu.be nor youtube.com, the input its missing else branch handles,
\* although the URL carries a valid id.
C18_Witness ==
    /\ npc = "returned"
    /\ variant = "prototype"
    /\ ~ Contains(Lower(urlparse(Strip(url)).netloc), YOUTUBE_COM)
    /\ Lower(urlparse(Strip(url)).netloc) # YOUTU_BE
    /\ Lower(urlparse(Strip(url)).netloc) # <<>>
    /\ Contains(url, BaseId)
    /\ norm = None

-----------------------------------------------------------------------------
(* Claims about deepseek_sentiment (SpecSentLive)                          *)

\* An answer the call can return from: status 200, a body with choices,
\* a content that is a JSON object, and a confidence that is a number, a
\* string of digits, or missing
Succeeds(resp) ==
    /\ resp \in {Answered(l, c) : l \in LabelFields, c \in ConfFields}
    /\ resp.confidence \in {Absent, Num(90), JStr(<<"1">>)}

\* The requests so far that met no such answer
FailedSoFar == {k \in 1..Len(log) : ~ Succeeds(log[k])}

\* What holds at every point of a call
SentimentSafe ==
    /\ spc # "raised"
    /\ posts = Len(log)
    /\ posts <= MAX_RETRIES
    /\ txt \in BlankTexts => posts = 0
    /\ \A k \in 1..Len(log) : k < Len(log) => k \in FailedSoFar
    /\ (log # <<>> /\ Len(log) \notin FailedSoFar) => spc = "returned"
    /\ spc = "returned" =>
        /\ sresult.kind = "return"
        /\ sresult.label \in {NEGATIVE, NEUTRAL, POSITIVE}
        /\ txt \in BlankTexts => sresult = Returned(NEUTRAL, 0)
        /\ Cardinality(FailedSoFar) = MAX_RETRIES =>
               sresult = Returned(NEUTRAL, 0)

\* C19: deepseek_sentiment always ends with a (label, confidence) pair and
\* never raises: it returns from the first request that succeeds and sends
\* no further one, sends at most MAX_RETRIES requests, returns
\* ("NEUTRAL", 0.0) when all of them have failed, sends none for a text
\* that is empty or all whitespace, and every label it returns is one of
\* NEGATIVE, NEUTRAL, POSITIVE.
C19_EndsWithAPair == []SentimentSafe /\ <>(spc = "returned")

\* C19 witness: the call has returned from its third request, after two
\* that failed, with a label that had to be replaced
C19_Witness ==
    /\ spc = "returned"
    /\ Len(log) = MAX_RETRIES
    /\ FailedSoFar = {1, 2}
    /\ log[3].label = JStr(<<"m","i","x","e","d">>)
    /\ sresult = Returned(NEUTRAL, 90)

=============================================================================
